---- MODULE Spec2Model ----
(***************************************************************************)
(* Model of etl_connector.py: the OTX IPv4 ETL connector.                  *)
(*                                                                         *)
(* Strings are sequences of one-character strings, so that split, strip    *)
(* and startswith are computed as Python computes them.  A constant text   *)
(* of the program is a one-element sequence holding the whole text.        *)
(* JSON scalars are tagged records [t, v]; None is Null.                   *)
(***************************************************************************)
EXTENDS Integers, Sequences, FiniteSets, TLC

VARIABLES
    ips_arg,      \* main: args.ips (the empty string stands for None too: both are falsy)
    ips_file,     \* main: args.ips_file, [given, content]
    dry_run,      \* main: args.dry_run
    upsert_key,   \* main: args.upsert_key ("" is falsy, like None)
    max_retries,  \* run: int(env["MAX_RETRIES"])
    backoff,      \* run: int(env["RETRY_BACKOFF_SECONDS"])
    pc,           \* position of the single thread of control
    ips,          \* main: the Address List returned by iter_ips_from_args
    coll,         \* run: the collection handle ("unset", "none", "handle", "failed")
    index_ok,     \* get_mongo_collection: whether create_index succeeded
    i,            \* run: 1-based position of the for loop in ips
    successes,    \* run: successes
    payload,      \* run: payload returned by fetch_otx_general
    doc,          \* run: doc built by transform
    ret,          \* exit status of main (-1 while it runs)
    lines,        \* outcome lines printed so far, one [ip, kind] per line
    store,        \* the documents of the MongoDB collection, in insertion order
    store0,       \* the documents the collection held when the process started
    clock,        \* wall clock read by transform
    writes,       \* the completed upsert_document calls, [doc, status] each
    net_used,     \* whether any HTTP request was made by this process
    attempt,      \* fetch_otx_general: attempt
    requests,     \* fetch_otx_general: requests.get calls made by this call
    sleeps,       \* fetch_otx_general: time.sleep durations of this call, in order
    resps,        \* fetch_otx_general: what the endpoint answered to each request
    fres          \* fetch_otx_general: "idle", "running", "returned", "raised", "internal"

vars == <<ips_arg, ips_file, dry_run, upsert_key, max_retries, backoff, pc, ips,
          coll, index_ok, i, successes, payload, doc, ret, lines, store, store0,
          clock, writes, net_used, attempt, requests, sleeps, resps, fres>>

inputVars == <<ips_arg, ips_file, dry_run, upsert_key, max_retries, backoff, store0>>
fetchVars == <<attempt, requests, sleeps, resps, fres>>

-----------------------------------------------------------------------------
(* Bounds *)

MaxArgLen == 3        \* longest --ips string explored by the collector specification
MaxFileLen == 3       \* longest --ips-file content explored by the collector specification
MaxIps == 2           \* most comma-separated tokens given to a full run
MaxRetries == 2       \* largest MAX_RETRIES of a full run
MaxFetchRetries == 3  \* largest MAX_RETRIES of a single fetch_otx_general call

ArgChars == {"8", "1", ",", " "}
FileChars == {"8", "#", "\n", " "}
RunAddresses == {<<"8">>, <<"1">>}
BackoffValues == {2, 5}

-----------------------------------------------------------------------------
(* Strings *)

RECURSIVE SeqsUpTo(_, _)
SeqsUpTo(S, n) ==
    IF n = 0 THEN {<<>>}
    ELSE LET shorter == SeqsUpTo(S, n - 1)
         IN  shorter \cup {Append(s, c) : s \in {t \in shorter : Len(t) = n - 1}, c \in S}

IsSpace(c) == c \in {" ", "\n", "\t"}

RECURSIVE LStrip(_)
LStrip(s) ==
    IF s = <<>> THEN s
    ELSE IF IsSpace(Head(s)) THEN LStrip(Tail(s)) ELSE s

RECURSIVE RStrip(_)
RStrip(s) ==
    IF s = <<>> THEN s
    ELSE IF IsSpace(s[Len(s)]) THEN RStrip(SubSeq(s, 1, Len(s) - 1)) ELSE s

\* str.strip()
Strip(s) == RStrip(LStrip(s))

\* Position of the first c in s, 0 when there is none.
IndexOf(s, c) ==
    IF \E k \in 1..Len(s) : s[k] = c
    THEN CHOOSE k \in 1..Len(s) : s[k] = c /\ \A j \in 1..(k - 1) : s[j] # c
    ELSE 0

\* str.split(sep): one piece more than there are separators.
RECURSIVE Split(_, _)
Split(s, sep) ==
    LET k == IndexOf(s, sep)
    IN  IF k = 0 THEN <<s>>
        ELSE <<SubSeq(s, 1, k - 1)>> \o Split(SubSeq(s, k + 1, Len(s)), sep)

\* Iterating a text file: each line keeps its newline; no line after a final newline.
RECURSIVE FileLines(_)
FileLines(s) ==
    LET k == IndexOf(s, "\n")
    IN  IF s = <<>> THEN <<>>
        ELSE IF k = 0 THEN <<s>>
        ELSE <<SubSeq(s, 1, k)>> \o FileLines(SubSeq(s, k + 1, Len(s)))

StartsWith(s, c) == s # <<>> /\ s[1] = c

RECURSIVE MapStrip(_)
MapStrip(ss) == IF ss = <<>> THEN <<>> ELSE <<Strip(Head(ss))>> \o MapStrip(Tail(ss))

RECURSIVE Join(_, _)
Join(ss, sep) ==
    IF ss = <<>> THEN <<>>
    ELSE IF Len(ss) = 1 THEN Head(ss)
    ELSE Head(ss) \o <<sep>> \o Join(Tail(ss), sep)

Elems(s) == {s[k] : k \in 1..Len(s)}

-----------------------------------------------------------------------------
(* iter_ips_from_args *)

\* [x.strip() for x in ips_arg.split(",") if x.strip()]
InlineTokens(arg) ==
    IF arg = <<>> THEN <<>>
    ELSE SelectSeq(MapStrip(Split(arg, ",")), LAMBDA x : x # <<>>)

\* the lines s = line.strip() with s and not s.startswith("#")
FileTokens(file) ==
    IF ~file.given THEN <<>>
    ELSE SelectSeq(MapStrip(FileLines(file.content)),
                   LAMBDA s : s # <<>> /\ ~StartsWith(s, "#"))

\* de-duplicate, preserve order
RECURSIVE DedupFrom(_, _, _)
DedupFrom(rest, seen, ordered) ==
    IF rest = <<>> THEN ordered
    ELSE IF Head(rest) \notin seen
         THEN DedupFrom(Tail(rest), seen \cup {Head(rest)}, Append(ordered, Head(rest)))
         ELSE DedupFrom(Tail(rest), seen, ordered)

\* Faulty variant: the list is returned as collected.
DedupNone(all) == all
Dedup(all) == DedupFrom(all, {}, <<>>)

iter_ips_from_args(arg, file) == Dedup(InlineTokens(arg) \o FileTokens(file))

-----------------------------------------------------------------------------
(* JSON values *)

Null == [t |-> "null", v |-> <<>>]
Str(s) == [t |-> "str", v |-> s]
Num(s) == [t |-> "int", v |-> s]
Time(n) == [t |-> "time", v |-> <<n>>]
Dict(f) == [t |-> "dict", fields |-> f]
List == [t |-> "list", v |-> <<>>]

\* isinstance(x, dict)
IsDict(x) == x.t = "dict"

\* x.get(name): None when the key is absent
Get(x, name) == IF name \in DOMAIN x.fields THEN x.fields[name] ELSE Null

\* Bodies a 2xx answer for ip can decode to: the feed's usual object, an object
\* without the convenience fields, and JSON that is not an object.
FullBody(ip) ==
    Dict([indicator |-> Str(ip),
          alexa |-> Dict([rank |-> Num(<<"500">>)]),
          pulse_info |-> Dict([count |-> Num(<<"3">>)])])
SparseBody == Dict([alexa |-> Str(<<"not-a-map">>)])
OkBodies(ip) == {FullBody(ip), SparseBody, List}
NoBody == Null

FailureKinds == {"http429", "httperr", "transport", "badjson"}
\* failures that reach the except clause of fetch_otx_general
ErrorKinds == {"httperr", "transport", "badjson"}

-----------------------------------------------------------------------------
(* fetch_otx_general *)

\* sleep_for = backoff * attempt
\* Faulty variant: the delay of the following attempt.
SleepForNext(b, a) == b * (a + 1)

SleepFor(b, a) == b * a

\* if attempt == max_retries: raise
\* Faulty variant: gives up one attempt early.
IsFinalAttemptEarly(a, m) == a >= m - 1

IsFinalAttempt(a, m) == a = m

-----------------------------------------------------------------------------
(* transform *)

transform(ip, body, now) ==
    [ip |-> Str(ip),
     source |-> Str(<<"AlienVault OTX">>),
     endpoint |-> Str(<<"IPv4/general">>),
     fetched_at |-> Time(now),
     raw |-> body,
     indicator |-> Get(body, "indicator"),
     alexa_rank |-> IF IsDict(Get(body, "alexa")) THEN Get(Get(body, "alexa"), "rank") ELSE Null,
     pulse_count |-> IF IsDict(Get(body, "pulse_info")) THEN Get(Get(body, "pulse_info"), "count") ELSE Null]

\* payload.get raises AttributeError unless payload is a dict
TransformRaises(body) == ~IsDict(body)

-----------------------------------------------------------------------------
(* The collection and upsert_document *)

\* the filter {key: val}
Matches(d, key, val) == key \in DOMAIN d /\ d[key] = val

\* {"$set": rec} applied to d
SetFields(d, rec) ==
    [f \in (DOMAIN d) \cup (DOMAIN rec) |-> IF f \in DOMAIN rec THEN rec[f] ELSE d[f]]

insert_one(c, rec) == Append(c, rec)

\* coll.update_one({key: val}, {"$set": rec}, upsert=True): the first match is
\* updated; with no match a document of the filter's and the $set's fields is inserted.
\* Faulty variant: never looks for a match.
update_one_insert(c, key, val, rec) == Append(c, rec)

update_one(c, key, val, rec) ==
    IF \E k \in 1..Len(c) : Matches(c[k], key, val)
    THEN LET k == CHOOSE k \in 1..Len(c) :
                     /\ Matches(c[k], key, val)
                     /\ \A j \in 1..(k - 1) : ~Matches(c[j], key, val)
         IN  [c EXCEPT ![k] = SetFields(c[k], rec)]
    ELSE Append(c, SetFields((key :> val), rec))

\* if upsert_key and upsert_key in doc and doc[upsert_key] is not None
\* Faulty variant: a null value still selects the upsert.
UseUpsertNoNullCheck(rec, key) == key # "" /\ key \in DOMAIN rec

UseUpsert(rec, key) == key # "" /\ key \in DOMAIN rec /\ rec[key] # Null

upsert_document(c, rec, key) ==
    IF UseUpsert(rec, key)
    THEN [coll |-> update_one(c, key, rec[key], rec), status |-> "upserted"]
    ELSE [coll |-> insert_one(c, rec), status |-> "inserted"]

-----------------------------------------------------------------------------
(* Initial states *)

NoFile == [given |-> FALSE, content |-> <<>>]
NoDoc == [ip |-> Null]
UpsertKeys == {"", "indicator", "source", "no_such_field"}

\* What an earlier run left for address 8: nothing, one document, or two documents
\* of the same indicator (written by runs that inserted).
PrevDoc == transform(<<"8">>, FullBody(<<"8">>), 0)
InitialStores == {<<>>, <<PrevDoc>>, <<PrevDoc, PrevDoc>>}

InitRest ==
    /\ pc = "main"
    /\ ips = <<>>
    /\ coll = "unset"
    /\ index_ok = FALSE
    /\ i = 0
    /\ successes = 0
    /\ payload = NoBody
    /\ doc = NoDoc
    /\ ret = -1
    /\ lines = <<>>
    /\ store = store0
    /\ clock = 1
    /\ writes = <<>>
    /\ net_used = FALSE
    /\ attempt = 0
    /\ requests = 0
    /\ sleeps = <<>>
    /\ resps = <<>>
    /\ fres = "idle"

\* A full run: --ips is a comma-separated list of up to MaxIps addresses.
Init ==
    /\ ips_arg \in {Join(ts, ",") : ts \in SeqsUpTo(RunAddresses, MaxIps)}
    /\ ips_file = NoFile
    /\ dry_run \in BOOLEAN
    /\ upsert_key \in UpsertKeys
    /\ max_retries \in 0..MaxRetries
    /\ backoff = 2
    /\ store0 \in InitialStores
    /\ InitRest

-----------------------------------------------------------------------------
(* main *)

MainNoIps ==
    /\ pc = "main"
    /\ iter_ips_from_args(ips_arg, ips_file) = <<>>
    /\ ips' = <<>>
    /\ ret' = 1
    /\ pc' = "exit"
    /\ UNCHANGED <<inputVars, fetchVars, coll, index_ok, i, successes, payload, doc,
                   lines, store, clock, writes, net_used>>

MainRun ==
    /\ pc = "main"
    /\ iter_ips_from_args(ips_arg, ips_file) # <<>>
    /\ ips' = iter_ips_from_args(ips_arg, ips_file)
    /\ pc' = "connect"
    /\ UNCHANGED <<inputVars, fetchVars, coll, index_ok, i, successes, payload, doc,
                   ret, lines, store, clock, writes, net_used>>

Main == MainNoIps \/ MainRun

-----------------------------------------------------------------------------
(* run: the connection *)

runLoopUnchanged == <<inputVars, fetchVars, ips, successes, payload, doc, lines,
                      store, clock, writes, net_used>>

\* dry_run: coll = None
ConnectDry ==
    /\ pc = "connect"
    /\ dry_run
    /\ coll' = "none"
    /\ i' = 1
    /\ pc' = "loop"
    /\ UNCHANGED <<runLoopUnchanged, index_ok, ret>>

\* get_mongo_collection: the ping succeeds; create_index succeeds or only warns
ConnectOk ==
    /\ pc = "connect"
    /\ ~dry_run
    /\ \E created \in BOOLEAN : index_ok' = created
    /\ coll' = "handle"
    /\ i' = 1
    /\ pc' = "loop"
    /\ UNCHANGED <<runLoopUnchanged, ret>>

\* Faulty variant: the failure is not fatal.
ConnectFailIgnored ==
    /\ pc = "connect"
    /\ ~dry_run
    /\ coll' = "failed"
    /\ i' = 1
    /\ pc' = "loop"
    /\ UNCHANGED <<runLoopUnchanged, index_ok, ret>>

\* get_mongo_collection raises (MongoClient or the ping): return 2
ConnectFail ==
    /\ pc = "connect"
    /\ ~dry_run
    /\ coll' = "failed"
    /\ ret' = 2
    /\ pc' = "exit"
    /\ UNCHANGED <<runLoopUnchanged, index_ok, i>>

-----------------------------------------------------------------------------
(* run: the loop over ips *)

\* for ip in ips: fetch_otx_general(ip, ...) is entered
LoopFetch ==
    /\ pc = "loop"
    /\ i <= Len(ips)
    /\ pc' = "fetch"
    /\ attempt' = 1
    /\ requests' = 0
    /\ sleeps' = <<>>
    /\ resps' = <<>>
    /\ fres' = "running"
    /\ UNCHANGED <<inputVars, ips, coll, index_ok, i, successes, payload, doc, ret,
                   lines, store, clock, writes, net_used>>

\* return 0 if successes == len(ips) else 1
\* Faulty variant: one success is enough for status 0.
ExitStatusAny(n, total) == IF n > 0 THEN 0 ELSE 1

ExitStatus(n, total) == IF n = total THEN 0 ELSE 1

LoopReturn ==
    /\ pc = "loop"
    /\ i > Len(ips)
    /\ ret' = ExitStatus(successes, Len(ips))
    /\ pc' = "exit"
    /\ UNCHANGED <<inputVars, fetchVars, ips, coll, index_ok, i, successes, payload,
                   doc, lines, store, clock, writes, net_used>>

-----------------------------------------------------------------------------
(* fetch_otx_general: one iteration of the retry loop per action *)

fetchUnchanged == <<inputVars, pc, ips, coll, index_ok, i, successes, doc, ret,
                    lines, store, clock, writes>>

InFetch == pc = "fetch" /\ fres = "running"

\* resp.status_code == 429: sleep, continue
Attempt429 ==
    /\ InFetch
    /\ attempt <= max_retries
    /\ requests' = requests + 1
    /\ net_used' = TRUE
    /\ resps' = Append(resps, [kind |-> "http429", body |-> NoBody])
    /\ sleeps' = Append(sleeps, SleepFor(backoff, attempt))
    /\ attempt' = attempt + 1
    /\ UNCHANGED <<fetchUnchanged, payload, fres>>

\* 2xx and resp.json() decodes: return it
AttemptOk ==
    /\ InFetch
    /\ attempt <= max_retries
    /\ \E body \in OkBodies(ips[i]) :
          /\ resps' = Append(resps, [kind |-> "ok", body |-> body])
          /\ payload' = body
    /\ requests' = requests + 1
    /\ net_used' = TRUE
    /\ fres' = "returned"
    /\ UNCHANGED <<fetchUnchanged, attempt, sleeps>>

\* except (RequestException, JSONDecodeError), not the last attempt: sleep, retry
AttemptRetry ==
    /\ InFetch
    /\ attempt <= max_retries
    /\ ~IsFinalAttempt(attempt, max_retries)
    /\ \E kind \in ErrorKinds : resps' = Append(resps, [kind |-> kind, body |-> NoBody])
    /\ requests' = requests + 1
    /\ net_used' = TRUE
    /\ sleeps' = Append(sleeps, SleepFor(backoff, attempt))
    /\ attempt' = attempt + 1
    /\ UNCHANGED <<fetchUnchanged, payload, fres>>

\* except (RequestException, JSONDecodeError), attempt == max_retries: raise
AttemptRaise ==
    /\ InFetch
    /\ attempt <= max_retries
    /\ IsFinalAttempt(attempt, max_retries)
    /\ \E kind \in ErrorKinds : resps' = Append(resps, [kind |-> kind, body |-> NoBody])
    /\ requests' = requests + 1
    /\ net_used' = TRUE
    /\ fres' = "raised"
    /\ UNCHANGED <<fetchUnchanged, payload, attempt, sleeps>>

\* the for loop ends: raise RuntimeError("Exhausted retries unexpectedly")
Exhausted ==
    /\ InFetch
    /\ attempt > max_retries
    /\ fres' = "internal"
    /\ UNCHANGED <<fetchUnchanged, payload, net_used, attempt, requests, sleeps, resps>>

FetchNext == Attempt429 \/ AttemptOk \/ AttemptRetry \/ AttemptRaise \/ Exhausted

-----------------------------------------------------------------------------
(* run: the body of the try block after the fetch, and its except clause *)

\* kind "record": the printed Record; "info": [INFO] ip: status; "error": [ERROR]
\* Failed for ip: e, with status telling what e is: "fetch" (fetch_otx_general
\* raised), "store" (the write raised), or the type of the payload that has no get
Line(ip, kind, status) == [ip |-> ip, kind |-> kind, status |-> status]

\* fetch_otx_general's locals are gone once it has returned or raised
FetchLeft ==
    /\ attempt' = 0
    /\ requests' = 0
    /\ sleeps' = <<>>
    /\ resps' = <<>>
    /\ fres' = "idle"

\* Faulty variant: the first failed fetch ends the batch.
FetchFailedAborts ==
    /\ pc = "fetch"
    /\ fres \in {"raised", "internal"}
    /\ lines' = Append(lines, Line(ips[i], "error", "fetch"))
    /\ ret' = 1
    /\ pc' = "exit"
    /\ FetchLeft
    /\ UNCHANGED <<inputVars, ips, coll, index_ok, i, successes, payload, doc,
                   store, clock, writes, net_used>>

\* fetch_otx_general raised: except Exception prints the error line, next ip
FetchFailed ==
    /\ pc = "fetch"
    /\ fres \in {"raised", "internal"}
    /\ lines' = Append(lines, Line(ips[i], "error", "fetch"))
    /\ i' = i + 1
    /\ pc' = "loop"
    /\ FetchLeft
    /\ UNCHANGED <<inputVars, ips, coll, index_ok, successes, payload, doc, ret,
                   store, clock, writes, net_used>>

\* doc = transform(ip, payload)
TransformOk ==
    /\ pc = "fetch"
    /\ fres = "returned"
    /\ ~TransformRaises(payload)
    /\ doc' = transform(ips[i], payload, clock)
    /\ clock' = clock + 1
    /\ pc' = "write"
    /\ FetchLeft
    /\ UNCHANGED <<inputVars, ips, coll, index_ok, i, successes, payload, ret, lines,
                   store, writes, net_used>>

\* transform raises on a payload that is no dict: except Exception, next ip
TransformRaise ==
    /\ pc = "fetch"
    /\ fres = "returned"
    /\ TransformRaises(payload)
    /\ lines' = Append(lines, Line(ips[i], "error", payload.t))
    /\ i' = i + 1
    /\ pc' = "loop"
    /\ FetchLeft
    /\ UNCHANGED <<inputVars, ips, coll, index_ok, successes, payload, doc, ret,
                   store, clock, writes, net_used>>

\* Faulty variant: the dry run writes too.
WriteDryRunStores ==
    /\ pc = "write"
    /\ dry_run
    /\ store' = upsert_document(store, doc, upsert_key).coll
    /\ lines' = Append(lines, Line(ips[i], "record", ""))
    /\ successes' = successes + 1
    /\ i' = i + 1
    /\ pc' = "loop"
    /\ UNCHANGED <<inputVars, fetchVars, ips, coll, index_ok, payload, doc, ret,
                   clock, writes, net_used>>

\* dry_run: print(json.dumps(doc, indent=2)); successes += 1
WriteDryRun ==
    /\ pc = "write"
    /\ dry_run
    /\ lines' = Append(lines, Line(ips[i], "record", ""))
    /\ successes' = successes + 1
    /\ i' = i + 1
    /\ pc' = "loop"
    /\ UNCHANGED <<inputVars, fetchVars, ips, coll, index_ok, payload, doc, ret,
                   store, clock, writes, net_used>>

\* status = upsert_document(coll, doc, upsert_key); print [INFO]; successes += 1
WriteStore ==
    /\ pc = "write"
    /\ ~dry_run
    /\ LET r == upsert_document(store, doc, upsert_key)
       IN  /\ store' = r.coll
           /\ writes' = Append(writes, [doc |-> doc, status |-> r.status])
           /\ lines' = Append(lines, Line(ips[i], "info", r.status))
    /\ successes' = successes + 1
    /\ i' = i + 1
    /\ pc' = "loop"
    /\ UNCHANGED <<inputVars, fetchVars, ips, coll, index_ok, payload, doc, ret,
                   clock, net_used>>

\* the store write raises (the store went away): except Exception, next ip
WriteStoreRaise ==
    /\ pc = "write"
    /\ ~dry_run
    /\ lines' = Append(lines, Line(ips[i], "error", "store"))
    /\ i' = i + 1
    /\ pc' = "loop"
    /\ UNCHANGED <<inputVars, fetchVars, ips, coll, index_ok, successes, payload, doc,
                   ret, store, clock, writes, net_used>>

-----------------------------------------------------------------------------
(* Specifications *)

Next ==
    \/ Main
    \/ ConnectDry
    \/ ConnectOk
    \/ ConnectFail
    \/ LoopFetch
    \/ LoopReturn
    \/ FetchNext
    \/ FetchFailed
    \/ TransformOk
    \/ TransformRaise
    \/ WriteDryRun
    \/ WriteStore
    \/ WriteStoreRaise

\* The whole process, from main to its exit status.
Spec == Init /\ [][Next]_vars

\* The process is one thread that is never blocked for ever: requests time out
\* and sleeps end, so a step that can be taken is taken.
\* Checked on the runs with the default --upsert-key against an empty collection.
InitFair ==
    /\ ips_arg \in {Join(ts, ",") : ts \in SeqsUpTo(RunAddresses, MaxIps)}
    /\ ips_file = NoFile
    /\ dry_run \in BOOLEAN
    /\ upsert_key = "indicator"
    /\ max_retries \in 0..MaxRetries
    /\ backoff = 2
    /\ store0 = <<>>
    /\ InitRest

FairSpec == InitFair /\ [][Next]_vars /\ WF_vars(Next)

\* One call of fetch_otx_general, for address 8, against every endpoint behaviour.
InitFetch ==
    /\ ips_arg = <<"8">>
    /\ ips_file = NoFile
    /\ dry_run = TRUE
    /\ upsert_key = "indicator"
    /\ max_retries \in 0..MaxFetchRetries
    /\ backoff \in BackoffValues
    /\ store0 = <<>>
    /\ pc = "fetch"
    /\ ips = <<ips_arg>>
    /\ coll = "none"
    /\ index_ok = FALSE
    /\ i = 1
    /\ successes = 0
    /\ payload = NoBody
    /\ doc = NoDoc
    /\ ret = -1
    /\ lines = <<>>
    /\ store = store0
    /\ clock = 1
    /\ writes = <<>>
    /\ net_used = FALSE
    /\ attempt = 1
    /\ requests = 0
    /\ sleeps = <<>>
    /\ resps = <<>>
    /\ fres = "running"

SpecFetch == InitFetch /\ [][FetchNext]_vars

\* iter_ips_from_args on every --ips string and every --ips-file content in the bounds.
InitCollect ==
    /\ ips_arg \in SeqsUpTo(ArgChars, MaxArgLen)
    /\ ips_file \in {NoFile} \cup
                    {[given |-> TRUE, content |-> c] : c \in SeqsUpTo(FileChars, MaxFileLen)}
    /\ dry_run = TRUE
    /\ upsert_key = "indicator"
    /\ max_retries = 1
    /\ backoff = 2
    /\ store0 = <<>>
    /\ InitRest

SpecCollect == InitCollect /\ [][Main]_vars

-----------------------------------------------------------------------------
(* Properties *)

SetMin(S) == CHOOSE x \in S : \A y \in S : x <= y
SetMax(S) == CHOOSE x \in S : \A y \in S : x >= y

\* run got past the connection stage: per-address processing has begun
Started == coll \in {"none", "handle"}

ErrorLines == {k \in 1..Len(lines) : lines[k].kind = "error"}
SuccessLines == {k \in 1..Len(lines) : lines[k].kind \in {"record", "info"}}

AllSucceeded ==
    \A k \in 1..Len(ips) :
        \E j \in SuccessLines : lines[j].ip = ips[k]

\* C1: once the store is reachable or the run is dry, a run over a non-empty
\* Address List exits 0 exactly when every address succeeded and 1 as soon as
\* one address failed (some or all); 2 is never the status once per-address
\* processing has begun.
C1_ExitStatus ==
    /\ (pc = "exit" /\ Started) =>
          /\ ips # <<>>
          /\ ret \in {0, 1}
          /\ (ret = 0 <=> AllSucceeded)
          /\ (ErrorLines # {} => ret = 1)
    /\ Started => ret # 2

C1_Witness ==
    /\ pc = "exit"
    /\ Started
    /\ Len(ips) = 2
    /\ ret = 1
    /\ Cardinality(ErrorLines) = 1
    /\ Cardinality(SuccessLines) = 1

\* Every outcome line so far belongs to the address at its position of the list,
\* and the successes and the error lines add up to the lines.
InOrderSoFar ==
    Started =>
        /\ Len(lines) <= Len(ips)
        /\ \A k \in 1..Len(lines) : lines[k].ip = ips[k]
        /\ successes = Cardinality(SuccessLines)
        /\ successes + Cardinality(ErrorLines) = Len(lines)

BatchComplete ==
    /\ pc = "exit"
    /\ Len(lines) = Len(ips)
    /\ \A k \in 1..Len(ips) : lines[k].ip = ips[k]
    /\ successes + Cardinality(ErrorLines) = Len(ips)

\* C2: a failure for one address never aborts the batch: every address is
\* processed exactly once, in list order, whatever happened to the earlier
\* ones, each gives exactly one outcome line, and the run ends with successes
\* plus failures equal to the length of the list.
C2_BatchNeverAborts == [](InOrderSoFar) /\ (Started ~> BatchComplete)

C2_Witness ==
    /\ pc = "exit"
    /\ Len(ips) = 2
    /\ Len(lines) = 2
    /\ lines[1].kind = "error"
    /\ lines[2].kind = "info"

AllTransport == \A k \in 1..Len(resps) : resps[k].kind = "transport"

\* C4: against an endpoint that fails at transport level every time, with
\* max_retries = N >= 1, the call makes exactly N requests, sleeps backoff*a
\* after each of attempts 1..N-1 and not after attempt N, and raises.
C4_Exhaustion ==
    (max_retries >= 1 /\ AllTransport /\ pc = "fetch") =>
        /\ requests = Len(resps)
        /\ requests <= max_retries
        /\ fres \in {"running", "raised"}
        /\ (fres = "running" => Len(sleeps) = requests /\ requests < max_retries)
        /\ (fres = "raised" => requests = max_retries /\ Len(sleeps) = max_retries - 1)
        /\ \A j \in 1..Len(sleeps) : sleeps[j] = backoff * j

C4_Witness ==
    /\ max_retries = 3
    /\ AllTransport
    /\ fres = "raised"
    /\ requests = 3
    /\ sleeps = <<backoff, backoff * 2>>

\* C5: with max_retries >= 1 the call never runs out of attempts without having
\* returned a payload or raised a request failure: the RuntimeError is unreachable.
C5_NoInternalError == max_retries >= 1 => fres # "internal"

\* the key is provided, present in the Record and not null
Keyed(rec) == upsert_key # "" /\ upsert_key \in DOMAIN rec /\ rec[upsert_key] # Null

UniquePerKey(c) ==
    \A a \in 1..Len(c) : \A b \in 1..Len(c) :
        (a < b /\ Keyed(c[a]) /\ Keyed(c[b])) => c[a][upsert_key] # c[b][upsert_key]

Holders(val) == {k \in 1..Len(store) : Keyed(store[k]) /\ store[k][upsert_key] = val}

\* the most recent Record written with the key value val
MostRecent(val) ==
    writes[SetMax({w \in 1..Len(writes) :
                      Keyed(writes[w].doc) /\ writes[w].doc[upsert_key] = val})].doc

\* C6: from a collection with at most one document per key value, after any
\* writes of Records with a non-null key the collection holds exactly one
\* document per key value written, it carries the fields of the most recent
\* such Record, every such write reports "upserted", and writing that Record
\* again leaves the collection as it is.
C6_UpsertIdempotent ==
    UniquePerKey(store0) =>
        \A w \in 1..Len(writes) :
            Keyed(writes[w].doc) =>
                LET val == writes[w].doc[upsert_key]
                    recent == MostRecent(val)
                IN  /\ writes[w].status = "upserted"
                    /\ Cardinality(Holders(val)) = 1
                    /\ \A k \in Holders(val) : \A f \in DOMAIN recent :
                           f \in DOMAIN store[k] /\ store[k][f] = recent[f]
                    /\ upsert_document(store, recent, upsert_key).coll = store

C6_Witness ==
    /\ store0 = <<PrevDoc>>
    /\ Len(writes) = 2
    /\ Keyed(writes[1].doc)
    /\ Keyed(writes[2].doc)
    /\ writes[1].doc[upsert_key] = writes[2].doc[upsert_key]
    /\ writes[1].doc # writes[2].doc
    /\ Len(store) = 1

C8_ConnectFailureFatal ==
    /\ coll = "failed" =>
          /\ ~dry_run
          /\ pc = "exit"
          /\ ret = 2
          /\ ~net_used
          /\ lines = <<>>
          /\ clock = 1
          /\ writes = <<>>
          /\ store = store0
    /\ ret = 2 => coll = "failed"
    /\ (coll = "handle" /\ ~index_ok) =>
          /\ ret # 2
          /\ pc = "exit" => Len(lines) = Len(ips)

C8_Witness ==
    /\ coll = "failed"
    /\ pc = "exit"
    /\ Len(ips) = 2

NoStoreInDryRun ==
    dry_run =>
        /\ coll \in {"unset", "none"}
        /\ store = store0
        /\ writes = <<>>
        /\ ret # 2
        /\ \A k \in 1..Len(lines) : lines[k].kind # "info"
        /\ successes = Cardinality({k \in 1..Len(lines) : lines[k].kind = "record"})

\* C9 as claimed: in dry-run mode no connection is attempted and nothing is
\* written, status 2 is never returned, and each successfully fetched address
\* is transformed, printed as a Record and counted as a success: only a failed
\* fetch gives an error line.
C9_DryRunAllFetchedPrinted ==
    /\ NoStoreInDryRun
    /\ dry_run =>
          \A k \in ErrorLines : lines[k].status = "fetch"

\* C9, amended: in dry-run mode no connection is attempted and nothing is
\* written, status 2 is never returned, and each successfully fetched address
\* whose payload is a JSON object is transformed, printed as a Record and
\* counted as a success; a fetched payload that is no JSON object makes
\* transform raise and the address counts as failed.
C9_DryRunIsolation ==
    /\ NoStoreInDryRun
    /\ dry_run =>
          \A k \in ErrorLines : lines[k].status \in {"fetch", "list"}
    /\ (dry_run /\ pc = "fetch" /\ fres = "returned" /\ IsDict(payload)) =>
          ENABLED TransformOk /\ ~ENABLED TransformRaise
    /\ (dry_run /\ pc = "write") =>
          /\ doc.ip = Str(ips[i])
          /\ doc.raw = payload
          /\ ENABLED WriteDryRun

C9_Witness ==
    /\ dry_run
    /\ pc = "exit"
    /\ Len(lines) = 2
    /\ lines[1].kind = "record"
    /\ lines[2].kind = "error"
    /\ successes = 1
    /\ ret = 1

\* str.split, restated: the maximal runs <<p, q>> of s between separators
Pieces(s, sep) ==
    {pq \in (1..(Len(s) + 1)) \X (0..Len(s)) :
        /\ pq[2] >= pq[1] - 1
        /\ (pq[1] = 1 \/ s[pq[1] - 1] = sep)
        /\ (pq[2] = Len(s) \/ s[pq[2] + 1] = sep)
        /\ \A j \in pq[1]..pq[2] : s[j] # sep}

\* s[p..q] without the white space around it
Trimmed(s, p, q) ==
    LET solid == {j \in p..q : s[j] \notin {" ", "\n", "\t"}}
    IN  IF solid = {} THEN <<>> ELSE SubSeq(s, SetMin(solid), SetMax(solid))

\* The addresses the two sources name, each with where it stands: the inline
\* tokens first, then the lines of the file.
NamedInline ==
    {e \in {[pos |-> pq[1], tok |-> Trimmed(ips_arg, pq[1], pq[2])] :
                pq \in Pieces(ips_arg, ",")} : e.tok # <<>>}
NamedInFile ==
    IF ~ips_file.given THEN {}
    ELSE {e \in {[pos |-> Len(ips_arg) + 1 + pq[1],
                  tok |-> Trimmed(ips_file.content, pq[1], pq[2])] :
                     pq \in Pieces(ips_file.content, "\n")} :
             e.tok # <<>> /\ e.tok[1] # "#"}
Named == NamedInline \cup NamedInFile
FirstPos(t) == SetMin({e.pos : e \in {x \in Named : x.tok = t}})

\* C10: the Address List has no duplicate and no empty address, holds every
\* address of either source exactly once, in order of first appearance over the
\* inline tokens followed by the file's lines; a file address already given
\* inline is dropped, not moved.
C10_Collector ==
    pc # "main" =>
        /\ \A a \in 1..Len(ips) : \A b \in 1..Len(ips) : a < b => ips[a] # ips[b]
        /\ \A k \in 1..Len(ips) : ips[k] # <<>>
        /\ Elems(ips) = {e.tok : e \in Named}
        /\ \A a \in 1..Len(ips) : \A b \in 1..Len(ips) :
              a < b => FirstPos(ips[a]) < FirstPos(ips[b])

C10_Witness ==
    /\ pc # "main"
    /\ Len(ips) = 2
    /\ \E e \in NamedInFile : e.tok = ips[1]
    /\ \E e \in NamedInline : e.tok = ips[1]
    /\ \A e \in NamedInFile : e.tok # ips[2]

====
